---- MODULE Spec2Model ----
(***************************************************************************)
(* CloudWatch alarm management for Lambda functions (watch/alarms.py).     *)
(*                                                                         *)
(* The state is the alarm store of the monitoring service, the API calls   *)
(* and log records of the operation in progress, and the position of the   *)
(* main thread and of every task of update_alarms' thread pool.           *)
(***************************************************************************)
EXTENDS Naturals, Sequences, FiniteSets, Bags, TLC

\* ------------------------------------------------------------------ bounds

\* Number of distinct Lambda function names the listing may return when
\* update_alarms is called once (FanOutSpec).
NumFuncs == 4

\* Number of distinct Lambda function names in a sequence of calls (Spec).
NumSeqFuncs == 2

\* Number of top-level calls (update_alarms, delete_alarms) in one behaviour
\* of Spec.
MaxOps == 2

\* Number of put_metric_alarm calls the monitoring API may reject in one
\* behaviour.
MaxFailures == 1

\* ------------------------------------------------------- program constants

MAX_CONCURRENCY == 3

SNS_ALARMS_TOPIC == "SNS_ALARMS_TOPIC"

None == << >>

\* Function names; "a" is a prefix and a suffix of "aa", a prefix of "ab" and
\* a suffix of "ba".
AllNames == <<"a", "aa", "ab", "ba", "b", "c">>

FuncNames == {AllNames[i] : i \in 1..NumFuncs}

SeqFuncNames == {AllNames[i] : i \in 1..NumSeqFuncs}

\* get_applicable_lambdas() returns a dict: its keys are distinct, and
\* .keys() enumerates them in the order the collaborator inserted them, which
\* is taken to be the order of AllNames.
RECURSIVE KeysFrom(_, _)
KeysFrom(i, S) ==
    IF i > Len(AllNames) THEN << >>
    ELSE IF AllNames[i] \in S THEN <<AllNames[i]>> \o KeysFrom(i + 1, S)
    ELSE KeysFrom(i + 1, S)

get_applicable_lambdas(names) == {KeysFrom(1, S) : S \in SUBSET names}

\* update_alarms' keyword arguments: the defaults, and one other choice in
\* which the three values differ.
Defaults == [errors_threshold |-> 1, errors_period |-> 60, throttles_threshold |-> 1]

Params == {Defaults,
           [errors_threshold |-> 2, errors_period |-> 300, throttles_threshold |-> 5]}

NoParams == [errors_threshold |-> 0, errors_period |-> 0, throttles_threshold |-> 0]

\* ------------------------------------------------------------------- state

VARIABLES
    alarms,        \* the monitoring service: the set of stored alarm definitions
    call,          \* the top-level call in progress or made last, with its arguments
    ops,           \* number of top-level calls made so far
    start_alarms,  \* the alarm store when the current call began
    pc,            \* main thread: idle, submit, as_completed, shutdown, returned, raised
    task,          \* per function name: none, queued, errors, throttles, done, raised
    work_queue,    \* the executor's FIFO queue of submitted, not yet started tasks
    yielded,       \* the futures as_completed() has handed to the main thread
    calls,         \* bag of the API calls issued by the current call
    log,           \* bag of the messages logged by the current call
    existing_alarm,\* the value get_existing_alarm returned last
    failures       \* number of API calls rejected so far

vars == <<alarms, call, ops, start_alarms, pc, task, work_queue, yielded, calls, log,
          existing_alarm, failures>>

\* ------------------------------------------------- the monitoring service

AlarmNamesOf(store) == {a.AlarmName : a \in store}

\* Mutant: an existing alarm of that name is kept as it is.
cw_put_metric_alarm_keep(store, request) ==
    IF request.AlarmName \in AlarmNamesOf(store) THEN store ELSE store \cup {request}

\* PutMetricAlarm creates the alarm or, when one of that name exists,
\* overwrites it.
cw_put_metric_alarm(store, request) ==
    {a \in store : a.AlarmName # request.AlarmName} \cup {request}

\* DescribeAlarms(AlarmNames=[...]) returns the alarms with exactly these names.
cw_describe_alarms(store, AlarmNames) ==
    [MetricAlarms |-> {a \in store : \E i \in 1..Len(AlarmNames) : a.AlarmName = AlarmNames[i]}]

\* DeleteAlarms(AlarmNames=[...]) removes the alarms with exactly these names.
cw_delete_alarms(store, AlarmNames) ==
    {a \in store : \A i \in 1..Len(AlarmNames) : a.AlarmName # AlarmNames[i]}

PutCall(request, raised) ==
    [api |-> "put_metric_alarm", request |-> request, raised |-> raised]

DescribeCall(AlarmNames) ==
    [api |-> "describe_alarms", request |-> [AlarmNames |-> AlarmNames], raised |-> FALSE]

DeleteCall(AlarmNames) ==
    [api |-> "delete_alarms", request |-> [AlarmNames |-> AlarmNames], raised |-> FALSE]

\* ------------------------------------------------------- request builders

\* Mutant: threshold and period change places.
create_lambda_errors_alarm_swapped(func_name, threshold, period) ==
    LET alarm_name == "LambdaError_" \o func_name
    IN  [log |-> "Creating alarm " \o alarm_name,
         request |->
            [AlarmName |-> alarm_name,
             Period |-> threshold,
             EvaluationPeriods |-> 1,
             MetricName |-> "Errors",
             Namespace |-> "AWS/Lambda",
             Statistic |-> "Sum",
             ComparisonOperator |-> "GreaterThanThreshold",
             Threshold |-> period,
             ActionsEnabled |-> TRUE,
             AlarmDescription |-> "Alarm for lambda " \o func_name \o " errors",
             Dimensions |-> <<[Name |-> "FunctionName", Value |-> func_name]>>,
             AlarmActions |-> <<SNS_ALARMS_TOPIC>>]]

create_lambda_errors_alarm(func_name, threshold, period) ==
    LET alarm_name == "LambdaError_" \o func_name
    IN  [log |-> "Creating alarm " \o alarm_name,
         request |->
            [AlarmName |-> alarm_name,
             Period |-> period,
             EvaluationPeriods |-> 1,
             MetricName |-> "Errors",
             Namespace |-> "AWS/Lambda",
             Statistic |-> "Sum",
             ComparisonOperator |-> "GreaterThanThreshold",
             Threshold |-> threshold,
             ActionsEnabled |-> TRUE,
             AlarmDescription |-> "Alarm for lambda " \o func_name \o " errors",
             Dimensions |-> <<[Name |-> "FunctionName", Value |-> func_name]>>,
             AlarmActions |-> <<SNS_ALARMS_TOPIC>>]]

\* Mutant: the expression is the ratio, not the percentage.
create_lambda_throttles_alarm_ratio(func_name, threshold, period) ==
    LET alarm_name == "LambdaThrottles_" \o func_name
    IN  [log |-> "Creating alarm " \o alarm_name,
         request |->
            [AlarmName |-> alarm_name,
             EvaluationPeriods |-> 1,
             DatapointsToAlarm |-> 1,
             Metrics |-> <<
                [Id |-> "throttles_pc",
                 Expression |-> "throttles / invocations",
                 Label |-> "% Throttles",
                 ReturnData |-> TRUE],
                [Id |-> "throttles",
                 MetricStat |->
                    [Metric |->
                        [Namespace |-> "AWS/Lambda",
                         MetricName |-> "Throttles",
                         Dimensions |-> <<[Name |-> "FunctionName", Value |-> func_name]>>],
                     Period |-> period,
                     Stat |-> "Sum"],
                 ReturnData |-> FALSE],
                [Id |-> "invocations",
                 MetricStat |->
                    [Metric |->
                        [Namespace |-> "AWS/Lambda",
                         MetricName |-> "Invocations",
                         Dimensions |-> <<[Name |-> "FunctionName", Value |-> func_name]>>],
                     Period |-> period,
                     Stat |-> "Sum"],
                 ReturnData |-> FALSE]>>,
             ComparisonOperator |-> "GreaterThanThreshold",
             Threshold |-> threshold,
             ActionsEnabled |-> TRUE,
             AlarmDescription |-> "Alarm for Lambda " \o func_name \o " throttles/invocations",
             AlarmActions |-> <<SNS_ALARMS_TOPIC>>]]

create_lambda_throttles_alarm(func_name, threshold, period) ==
    LET alarm_name == "LambdaThrottles_" \o func_name
    IN  [log |-> "Creating alarm " \o alarm_name,
         request |->
            [AlarmName |-> alarm_name,
             EvaluationPeriods |-> 1,
             DatapointsToAlarm |-> 1,
             Metrics |-> <<
                [Id |-> "throttles_pc",
                 Expression |-> "(throttles / invocations) * 100",
                 Label |-> "% Throttles",
                 ReturnData |-> TRUE],
                [Id |-> "throttles",
                 MetricStat |->
                    [Metric |->
                        [Namespace |-> "AWS/Lambda",
                         MetricName |-> "Throttles",
                         Dimensions |-> <<[Name |-> "FunctionName", Value |-> func_name]>>],
                     Period |-> period,
                     Stat |-> "Sum"],
                 ReturnData |-> FALSE],
                [Id |-> "invocations",
                 MetricStat |->
                    [Metric |->
                        [Namespace |-> "AWS/Lambda",
                         MetricName |-> "Invocations",
                         Dimensions |-> <<[Name |-> "FunctionName", Value |-> func_name]>>],
                     Period |-> period,
                     Stat |-> "Sum"],
                 ReturnData |-> FALSE]>>,
             ComparisonOperator |-> "GreaterThanThreshold",
             Threshold |-> threshold,
             ActionsEnabled |-> TRUE,
             AlarmDescription |-> "Alarm for Lambda " \o func_name \o " throttles/invocations",
             AlarmActions |-> <<SNS_ALARMS_TOPIC>>]]

\* create_lambda_alarms: the two creations, in the order it makes them, with
\* the arguments it passes.
create_lambda_alarms(func_name, errors_threshold, errors_period, throttles_threshold) ==
    [errors |-> create_lambda_errors_alarm(func_name, errors_threshold, errors_period),
     throttles |-> create_lambda_throttles_alarm(func_name, throttles_threshold, errors_period)]

\* Mutant: the lookup is by name prefix, and the first alarm found is taken.
get_existing_alarm_prefix(store, func_name) ==
    LET alarm_name == "LambdaError_" \o func_name
        matching   == {a \in store :
                          /\ Len(a.AlarmName) >= Len(alarm_name)
                          /\ SubSeq(a.AlarmName, 1, Len(alarm_name)) = alarm_name}
    IN  [call |-> DescribeCall(<<alarm_name>>),
         value |-> IF matching # {} THEN CHOOSE a \in matching : TRUE ELSE None]

\* get_existing_alarm: the describe call it issues and the value it returns.
get_existing_alarm(store, func_name) ==
    LET alarm_name == "LambdaError_" \o func_name
        described  == cw_describe_alarms(store, <<alarm_name>>)
        matching   == {a \in described.MetricAlarms : a.AlarmName = alarm_name}
    IN  [call |-> DescribeCall(<<alarm_name>>),
         value |-> IF matching # {} THEN CHOOSE a \in matching : TRUE ELSE None]

\* ------------------------------------------------------------------ helpers

One(x) == SetToBag({x})

Count(bag, x) == IF x \in DOMAIN bag THEN bag[x] ELSE 0

RECURSIVE Join(_)
Join(names) ==
    IF names = << >> THEN ""
    ELSE IF Len(names) = 1 THEN names[1]
    ELSE names[1] \o "," \o Join(Tail(names))

NoCall == [fn |-> "none", args |-> << >>, params |-> NoParams]

Running == {f \in FuncNames : task[f] \in {"errors", "throttles"}}

Finished == {f \in FuncNames : task[f] \in {"done", "raised"}}

\* Mutant: a thread per task.
WorkerAvailable_unbounded == TRUE

\* ThreadPoolExecutor(max_workers=MAX_CONCURRENCY): a queued task starts only
\* on one of at most max_workers threads, each running one task at a time.
WorkerAvailable == Cardinality(Running) < MAX_CONCURRENCY

\* The monitoring API may reject a put_metric_alarm request; the describe and
\* delete requests of the lookup and delete path are answered.
MayRaise == IF failures < MaxFailures THEN {FALSE, TRUE} ELSE {FALSE}

\* ------------------------------------------------------------------- Init

Init ==
    /\ alarms = {}
    /\ call = NoCall
    /\ ops = 0
    /\ start_alarms = {}
    /\ pc = "idle"
    /\ task = [f \in FuncNames |-> "none"]
    /\ work_queue = << >>
    /\ yielded = {}
    /\ calls = EmptyBag
    /\ log = EmptyBag
    /\ existing_alarm = None
    /\ failures = 0

CanCall == pc \in {"idle", "returned", "raised"}

Begin(fn, args, params) ==
    /\ call' = [fn |-> fn, args |-> args, params |-> params]
    /\ ops' = ops + 1
    /\ start_alarms' = alarms

\* ----------------------------------------------------------- update_alarms

\* update_alarms up to the with statement: the listing and the first log.
UpdateAlarms(lambda_functions, params) ==
    /\ CanCall
    /\ Begin("update_alarms", lambda_functions, params)
    /\ log' = One("Creating alarms for " \o Join(lambda_functions))
    /\ calls' = EmptyBag
    /\ task' = [f \in FuncNames |-> "none"]
    /\ work_queue' = << >>
    /\ yielded' = {}
    /\ existing_alarm' = None
    /\ pc' = "submit"
    /\ UNCHANGED <<alarms, failures>>

Submitted == {f \in FuncNames : task[f] # "none"}

\* One iteration of the list comprehension: executor.submit(...) of the next key.
Submit ==
    /\ pc = "submit"
    /\ Cardinality(Submitted) < Len(call.args)
    /\ LET func_name == call.args[Cardinality(Submitted) + 1]
       IN  /\ task' = [task EXCEPT ![func_name] = "queued"]
           /\ work_queue' = Append(work_queue, func_name)
    /\ UNCHANGED <<alarms, call, ops, start_alarms, pc, yielded, calls, log,
                   existing_alarm, failures>>

\* Mutant: the comprehension may stop after its first submission.
SubmitDone_early ==
    /\ pc = "submit"
    /\ Cardinality(Submitted) >= 1 \/ Len(call.args) = 0
    /\ pc' = "as_completed"
    /\ UNCHANGED <<alarms, call, ops, start_alarms, task, work_queue, yielded, calls, log,
                   existing_alarm, failures>>

\* The comprehension is exhausted: the main thread enters as_completed.
SubmitDone ==
    /\ pc = "submit"
    /\ Cardinality(Submitted) = Len(call.args)
    /\ pc' = "as_completed"
    /\ UNCHANGED <<alarms, call, ops, start_alarms, task, work_queue, yielded, calls, log,
                   existing_alarm, failures>>

\* A pool thread takes the oldest queued task.
WorkerStart ==
    /\ work_queue # << >>
    /\ WorkerAvailable
    /\ task' = [task EXCEPT ![Head(work_queue)] = "errors"]
    /\ work_queue' = Tail(work_queue)
    /\ UNCHANGED <<alarms, call, ops, start_alarms, pc, yielded, calls, log,
                   existing_alarm, failures>>

\* One creation of a task: the log record, the put_metric_alarm call, and
\* either the stored alarm or the error that ends the task.
Create(func_name, step, next) ==
    /\ task[func_name] = step
    /\ LET p == call.params
           c == create_lambda_alarms(func_name, p.errors_threshold, p.errors_period,
                                     p.throttles_threshold)[step]
       IN  \E raised \in MayRaise :
             /\ log' = log (+) One(c.log)
             /\ calls' = calls (+) One(PutCall(c.request, raised))
             /\ alarms' = IF raised THEN alarms ELSE cw_put_metric_alarm(alarms, c.request)
             /\ failures' = IF raised THEN failures + 1 ELSE failures
             /\ task' = [task EXCEPT ![func_name] = IF raised THEN "raised" ELSE next]
    /\ UNCHANGED <<call, ops, start_alarms, pc, work_queue, yielded, existing_alarm>>

WorkerErrors == \E f \in FuncNames : Create(f, "errors", "throttles")

WorkerThrottles == \E f \in FuncNames : Create(f, "throttles", "done")

\* as_completed hands over a finished future and future.result() returns:
\* the task's return value (None) is logged.
ResultLogged ==
    /\ pc = "as_completed"
    /\ \E f \in Finished \ yielded :
          /\ task[f] = "done"
          /\ yielded' = yielded \cup {f}
          /\ log' = log (+) One("None")
    /\ UNCHANGED <<alarms, call, ops, start_alarms, pc, task, work_queue, calls,
                   existing_alarm, failures>>

\* as_completed hands over a finished future and future.result() raises the
\* task's error, which leaves the for loop and the with block.
ResultRaised ==
    /\ pc = "as_completed"
    /\ \E f \in Finished \ yielded :
          /\ task[f] = "raised"
          /\ yielded' = yielded \cup {f}
    /\ pc' = "shutdown_raising"
    /\ UNCHANGED <<alarms, call, ops, start_alarms, task, work_queue, calls, log,
                   existing_alarm, failures>>

\* as_completed is exhausted: the for loop ends and the with block is left.
LoopDone ==
    /\ pc = "as_completed"
    /\ yielded = Submitted
    /\ pc' = "shutdown"
    /\ UNCHANGED <<alarms, call, ops, start_alarms, task, work_queue, yielded, calls, log,
                   existing_alarm, failures>>

\* ThreadPoolExecutor.__exit__: shutdown(wait=True) returns once every
\* submitted task has run; then update_alarms returns or re-raises.
Shutdown ==
    /\ pc \in {"shutdown", "shutdown_raising"}
    /\ Finished = Submitted
    /\ pc' = IF pc = "shutdown" THEN "returned" ELSE "raised"
    /\ UNCHANGED <<alarms, call, ops, start_alarms, task, work_queue, yielded, calls, log,
                   existing_alarm, failures>>

\* ------------------------------------------------------ lookup and delete

\* Mutant: the lookup's value is used without the test, and None['AlarmName']
\* raises.
DeleteAlarms_unchecked(func_name) ==
    /\ CanCall
    /\ Begin("delete_alarms", <<func_name>>, NoParams)
    /\ LET r == get_existing_alarm(alarms, func_name)
       IN  /\ existing_alarm' = r.value
           /\ IF r.value # None
              THEN /\ alarms' = cw_delete_alarms(alarms, <<r.value.AlarmName>>)
                   /\ calls' = One(r.call) (+) One(DeleteCall(<<r.value.AlarmName>>))
                   /\ log' = One("delete_alarms response")
                   /\ pc' = "returned"
              ELSE /\ alarms' = alarms
                   /\ calls' = One(r.call)
                   /\ log' = EmptyBag
                   /\ pc' = "raised"
    /\ task' = [f \in FuncNames |-> "none"]
    /\ work_queue' = << >>
    /\ yielded' = {}
    /\ UNCHANGED failures

\* delete_alarms: the lookup, then the delete call and its logged response,
\* or the not-found message.
DeleteAlarms(func_name) ==
    /\ CanCall
    /\ Begin("delete_alarms", <<func_name>>, NoParams)
    /\ LET r == get_existing_alarm(alarms, func_name)
       IN  /\ existing_alarm' = r.value
           /\ IF r.value # None
              THEN /\ alarms' = cw_delete_alarms(alarms, <<r.value.AlarmName>>)
                   /\ calls' = One(r.call) (+) One(DeleteCall(<<r.value.AlarmName>>))
                   /\ log' = One("delete_alarms response")
              ELSE /\ alarms' = alarms
                   /\ calls' = One(r.call)
                   /\ log' = One("No alarms found for function " \o func_name)
    /\ task' = [f \in FuncNames |-> "none"]
    /\ work_queue' = << >>
    /\ yielded' = {}
    /\ pc' = "returned"
    /\ UNCHANGED failures

\* -------------------------------------------------------------------- Next

\* The steps of update_alarms' main thread and of its pool threads.
UpdateStep ==
    \/ Submit
    \/ SubmitDone
    \/ WorkerStart
    \/ WorkerErrors
    \/ WorkerThrottles
    \/ ResultLogged
    \/ ResultRaised
    \/ LoopDone
    \/ Shutdown

\* A sequence of calls of update_alarms and delete_alarms.
Next ==
    \/ /\ ops < MaxOps
       /\ \E l \in get_applicable_lambdas(SeqFuncNames), p \in Params : UpdateAlarms(l, p)
    \/ /\ ops < MaxOps
       /\ \E f \in SeqFuncNames : DeleteAlarms(f)
    \/ UpdateStep

Spec == Init /\ [][Next]_vars

\* One call of update_alarms, on the empty alarm store.
FanOutNext ==
    \/ /\ ops = 0
       /\ \E l \in get_applicable_lambdas(FuncNames), p \in Params : UpdateAlarms(l, p)
    \/ UpdateStep

FanOutSpec == Init /\ [][FanOutNext]_vars

\* The same with the scheduling the threads have: a thread that can take a
\* step does, and a blocking API request returns or raises.
FanOutFairSpec == FanOutSpec /\ WF_vars(UpdateStep)

\* ------------------------------------------------------------ properties

Listed == {call.args[i] : i \in 1..Len(call.args)}

UpdateEnded == call.fn = "update_alarms" /\ pc \in {"returned", "raised"}

DeleteEnded == call.fn = "delete_alarms" /\ pc \in {"returned", "raised"}

PutCalls == {c \in DOMAIN calls : c.api = "put_metric_alarm"}

PutCallsNamed(n) == {c \in PutCalls : c.request.AlarmName = n}

\* The messages the creation path logs; every other record of the log of
\* update_alarms reports the completion of a task.
CreationMessages ==
    {"Creating alarms for " \o Join(call.args)}
    \cup {"Creating alarm LambdaError_" \o f : f \in FuncNames}
    \cup {"Creating alarm LambdaThrottles_" \o f : f \in FuncNames}

CompletionLog == [m \in DOMAIN log \ CreationMessages |-> log[m]]

\* C1: from a store holding exactly what the create path made for f on an
\* empty store, delete_alarms(f) ends with no alarm left.
C1_CreateDeleteRoundTrip ==
    \A f \in SeqFuncNames :
        (/\ DeleteEnded
         /\ call.args = <<f>>
         /\ AlarmNamesOf(start_alarms) = {"LambdaError_" \o f, "LambdaThrottles_" \o f})
        => alarms = {}

\* C2: when update_alarms has ended, every alarm of every listed function
\* whose own put_metric_alarm call did not raise exists.
C2_FailuresIsolated ==
    UpdateEnded =>
        \A f \in Listed :
            \A n \in {"LambdaError_" \o f, "LambdaThrottles_" \o f} :
                (\A c \in PutCallsNamed(n) : ~c.raised) => n \in AlarmNamesOf(alarms)

\* C3: when update_alarms has ended, the log holds one completion record per
\* submitted task, no put_metric_alarm call was made twice, and a raised
\* task made update_alarms raise.
C3_EveryCompletionLogged ==
    UpdateEnded =>
        /\ BagCardinality(CompletionLog) = Len(call.args)
        /\ \A c \in PutCalls :
              /\ calls[c] = 1
              /\ PutCallsNamed(c.request.AlarmName) = {c}
        /\ ((\E f \in Listed : task[f] = "raised") => pc = "raised")

\* C4: delete_alarms(f) on a store without the alarm LambdaError_f returns
\* without raising, issues no delete call, leaves the store as it was and
\* logs the not-found message.
C4_DeleteMissingIsNoOp ==
    \A f \in SeqFuncNames :
        (/\ call.fn = "delete_alarms"
         /\ call.args = <<f>>
         /\ ("LambdaError_" \o f) \notin AlarmNamesOf(start_alarms))
        => /\ pc = "returned"
           /\ alarms = start_alarms
           /\ \A c \in DOMAIN calls : c.api # "delete_alarms" /\ c.api # "put_metric_alarm"
           /\ log = SetToBag({"No alarms found for function " \o f})

C4_Witness ==
    /\ call.fn = "delete_alarms"
    /\ call.args = <<"a">>
    /\ pc = "returned"
    /\ "LambdaError_a" \notin AlarmNamesOf(start_alarms)
    /\ "LambdaError_aa" \in AlarmNamesOf(start_alarms)

\* C5: at most 3 create_lambda_alarms tasks execute at the same time.
C5_AtMostThreeRunning ==
    Cardinality({f \in FuncNames : task[f] \in {"errors", "throttles"}}) <= 3

C5_Witness ==
    /\ Cardinality({f \in FuncNames : task[f] \in {"errors", "throttles"}}) = 3
    /\ work_queue # << >>

\* C6: update_alarms ends; when it has, create_lambda_alarms has been called
\* once for every listed name and for no other; without a rejected call it
\* returns with both alarms of every listed name stored; with an empty
\* listing it issues no API call.
C6_Ended ==
    UpdateEnded =>
        /\ \A f \in FuncNames :
              Count(log, "Creating alarm LambdaError_" \o f) = IF f \in Listed THEN 1 ELSE 0
        /\ (\A c \in DOMAIN calls : ~c.raised) =>
              /\ pc = "returned"
              /\ \A f \in Listed :
                    {"LambdaError_" \o f, "LambdaThrottles_" \o f} \subseteq AlarmNamesOf(alarms)
        /\ call.args = << >> => calls = EmptyBag

C6_EveryNameOnceAndTerminates ==
    /\ []C6_Ended
    /\ (call.fn = "update_alarms") ~> UpdateEnded

C6_Witness ==
    /\ UpdateEnded
    /\ pc = "returned"
    /\ Len(call.args) = NumFuncs

\* C7: a call of update_alarms that returns leaves the store it started from
\* with the alarms of the listed names overwritten by the ones it requests,
\* whatever the interleaving; on a store that holds them already (a second
\* run) the store is left as it was.
RequestedAlarms ==
    UNION {{create_lambda_errors_alarm(f, call.params.errors_threshold,
                                       call.params.errors_period).request,
            create_lambda_throttles_alarm(f, call.params.throttles_threshold,
                                          call.params.errors_period).request} : f \in Listed}

C7_IdempotentOrderIndependent ==
    (call.fn = "update_alarms" /\ pc = "returned") =>
        /\ alarms = {a \in start_alarms : a.AlarmName \notin AlarmNamesOf(RequestedAlarms)}
                    \cup RequestedAlarms
        /\ Cardinality(alarms) = Cardinality(AlarmNamesOf(alarms))
        /\ RequestedAlarms \subseteq start_alarms => alarms = start_alarms

C7_Witness ==
    /\ call.fn = "update_alarms"
    /\ pc = "returned"
    /\ Len(call.args) = 2
    /\ RequestedAlarms \subseteq start_alarms

\* C8: once the errors creation of a task for f has run, exactly one
\* put_metric_alarm call named LambdaError_f was made, with metric Errors,
\* namespace AWS/Lambda, statistic Sum, operator GreaterThanThreshold, the
\* errors threshold and period, and the one dimension FunctionName = f.
C8_ErrorsAlarmPayload ==
    call.fn = "update_alarms" =>
        \A f \in FuncNames :
            LET made == PutCallsNamed("LambdaError_" \o f)
            IN  IF task[f] \in {"throttles", "done", "raised"}
                THEN /\ Cardinality(made) = 1
                     /\ \A c \in made :
                          /\ calls[c] = 1
                          /\ c.request.MetricName = "Errors"
                          /\ c.request.Namespace = "AWS/Lambda"
                          /\ c.request.Statistic = "Sum"
                          /\ c.request.ComparisonOperator = "GreaterThanThreshold"
                          /\ c.request.Threshold = call.params.errors_threshold
                          /\ c.request.Period = call.params.errors_period
                          /\ c.request.Dimensions = <<[Name |-> "FunctionName", Value |-> f]>>
                ELSE made = {}

C8_Witness ==
    \E c \in PutCallsNamed("LambdaError_aa") :
        /\ ~c.raised
        /\ c.request.Threshold = 2
        /\ c.request.Period = 300
        /\ c.request \in alarms

\* C9: every put_metric_alarm call named LambdaThrottles_f returns exactly
\* the metric-math expression (throttles / invocations) * 100 over the Sum of
\* the AWS/Lambda Throttles and Invocations of f for the errors period,
\* compared with GreaterThanThreshold against the throttles threshold.
MetricStatOf(f, metric, period) ==
    [Metric |-> [Namespace |-> "AWS/Lambda",
                 MetricName |-> metric,
                 Dimensions |-> <<[Name |-> "FunctionName", Value |-> f]>>],
     Period |-> period,
     Stat |-> "Sum"]

C9_ThrottlesAlarmPayload ==
    call.fn = "update_alarms" =>
        \A f \in FuncNames :
            LET made == PutCallsNamed("LambdaThrottles_" \o f)
            IN  /\ (task[f] = "done" => Cardinality(made) = 1)
                /\ \A c \in made :
                     LET m == c.request.Metrics
                         returned == {i \in 1..Len(m) : m[i].ReturnData}
                     IN  /\ Cardinality(returned) = 1
                         /\ \A i \in returned :
                              m[i].Expression = "(throttles / invocations) * 100"
                         /\ \E i \in 1..Len(m) :
                              /\ m[i].Id = "throttles"
                              /\ m[i].MetricStat =
                                    MetricStatOf(f, "Throttles", call.params.errors_period)
                         /\ \E i \in 1..Len(m) :
                              /\ m[i].Id = "invocations"
                              /\ m[i].MetricStat =
                                    MetricStatOf(f, "Invocations", call.params.errors_period)
                         /\ c.request.ComparisonOperator = "GreaterThanThreshold"
                         /\ c.request.Threshold = call.params.throttles_threshold

C9_Witness ==
    \E c \in PutCallsNamed("LambdaThrottles_aa") :
        /\ ~c.raised
        /\ c.request.Threshold = 5
        /\ c.request \in alarms

\* C10: delete_alarms(f) removes nothing but the alarm named LambdaError_f
\* and adds or changes nothing.
C10_DeleteFrame ==
    \A f \in SeqFuncNames :
        (call.fn = "delete_alarms" /\ call.args = <<f>>) =>
            /\ alarms \subseteq start_alarms
            /\ \A a \in start_alarms \ alarms : a.AlarmName = "LambdaError_" \o f

C10_Witness ==
    /\ call.fn = "delete_alarms"
    /\ call.args = <<"a">>
    /\ AlarmNamesOf(start_alarms) =
          {"LambdaError_a", "LambdaThrottles_a", "LambdaError_aa", "LambdaThrottles_aa"}
    /\ AlarmNamesOf(alarms) = {"LambdaThrottles_a", "LambdaError_aa", "LambdaThrottles_aa"}

====
